---- MODULE Spec2Model ----
(***************************************************************************)
(* A model of aiomanhole (src/aiomanhole/__init__.py): the per-connection  *)
(* interpreter session (InteractiveInterpreter), its buffering compiler    *)
(* (StatefulCommandCompiler), the threaded variant with its wait timeout   *)
(* (ThreadedInteractiveInterpreter) and the namespace policy of            *)
(* InterpreterFactory.                                                     *)
(*                                                                         *)
(* Bytes and text are sequences of tokens: a source line is one token, the *)
(* line separator is the token NL, and the empty line is the empty         *)
(* sequence.  The asyncio event loop is the variable sched: the coroutine  *)
(* that holds the loop's thread between two suspension points.  Executor   *)
(* threads run beside it.                                                  *)
(*                                                                         *)
(* Spec is the running server and its sessions.  FeedSpec exercises one    *)
(* compiler outside any session; StartSpec is start_manhole from before    *)
(* the call to a connection's banner.                                      *)
(***************************************************************************)
EXTENDS Integers, Sequences, FiniteSets, TLC

VARIABLES
    threaded,         \* start_manhole(threaded=...)
    command_timeout,  \* start_manhole(command_timeout=...)
    shared,           \* start_manhole(shared=...)
    banner,           \* InteractiveInterpreter.banner, as bytes
    port,             \* start_manhole(port=...)
    path,             \* start_manhole(path=...)
    banner_arg,       \* start_manhole(banner=...), as the caller gave it
    started,          \* start_manhole: not called yet, returned, or raised
    listeners,        \* the servers start_manhole's future gathers
    lines,            \* a sequence of lines handed to a compiler on its own
    fed,              \* how many of them have been fed one per call
    many,             \* the compiler fed one line per call
    one,              \* the compiler fed the joined lines in one call
    workers,          \* max_workers of the loop's default executor
    clients,          \* the connections the environment will open
    menu,             \* the lines those clients type
    alive,            \* the event loop is running
    sched,            \* the coroutine holding the event loop's thread
    pc,               \* each session's position in its coroutine
    buf,              \* StatefulCommandCompiler.buf of each session
    out,              \* bytes each session wrote in its current step of the dialogue:
                      \* the banner, then each prompt, then each response
    nsref,            \* InteractiveInterpreter.namespace: which mapping the session runs against
    heap,             \* the namespace mappings: the factory's and the per-session copies
    codeobj,          \* the code object the session is running
    res,              \* what attempt_exec handed back: value, captured output, error
    stdout,           \* sys.stdout: where the process's output channel points
    saved,            \* redirect_stdout's saved target, per execution window
    cap,              \* the StringIO of each session's execution window
    pool,             \* work items of the loop's default executor, in submission order
    hist              \* observations recorded for the properties

\* what start_manhole is given and what it leaves
startvars == <<port, path, banner_arg, started, listeners>>
\* a compiler exercised outside any session
feedvars == <<lines, fed, many, one>>
\* what no step of a session or of an executor thread changes
\* the sessions, the output channel and the executor
sessvars == <<alive, sched, pc, buf, out, nsref, heap, codeobj, res, stdout, saved, cap,
              pool, hist>>
cfgvars == <<threaded, command_timeout, shared, banner, workers, clients, menu,
             startvars, feedvars>>
vars == <<threaded, command_timeout, shared, banner, workers, clients, menu, alive, sched,
          pc, buf, out, nsref, heap, codeobj, res, stdout, saved, cap, pool, hist,
          startvars, feedvars>>

(***************************************************************************)
(* Bounds of the model.                                                    *)
(***************************************************************************)
NSessions == 2
MaxBufLines == 3
MaxWorkers == 2
MaxCapture == 2

Sessions == 1..NSessions

(***************************************************************************)
(* Tokens.                                                                 *)
(***************************************************************************)
NL == "\n"
PS1 == <<">>> ">>
PS2 == <<"... ">>
BannerText == <<"hello", NL>>

LExpr == "1+1"
LGetX == "x"
LSetX == "x = 5"
LPrint == "print('hi')"
LDelX == "del x"
LExit == "exit()"
LDef == "def f():"
LBody == "    pass"
LBadSyntax == "def f(:"
LBadBytes == "\\xff"
EOF == "<eof>"

SimpleLines == {LExpr, LGetX, LSetX, LDelX, LPrint, LExit}
AllLines == SimpleLines \cup {LDef, LBody, LBadSyntax, LBadBytes}

None == "None"
Names == {"x", "f"}

\* Python values: None, an int, a function object; Unbound marks a missing name
NoneV == [t |-> "none", n |-> 0]
IntV(n) == [t |-> "int", n |-> n]
FuncV == [t |-> "function", n |-> 0]
Unbound == [t |-> "unbound", n |-> 0]

\* the factory's namespace when the server starts: start_manhole(namespace=None)
Template == [k \in Names |-> Unbound]

(***************************************************************************)
(* StatefulCommandCompiler (lines 18-44).                                  *)
(***************************************************************************)

\* is_partial_command(): bool(self.buf.getvalue())
is_partial_command(b) == b # <<>>

\* a buffer that never inserts the separator
BufWrite_NoSeparator(b, source) == b \o source

\* __call__, lines 29-32: a separator when the buffer holds bytes, then the source
BufWrite(b, source) == IF is_partial_command(b) THEN b \o <<NL>> \o source ELSE b \o source

\* reset(): seek(0), truncate(0)
reset(b) == <<>>

\* bytes.decode('utf8') of line 34: fails on bytes that are not UTF-8
Decodable(b) == \A i \in 1..Len(b) : b[i] # LBadBytes

\* str.split("\n") as codeop applies it to the decoded source
RECURSIVE SplitLines(_)
SplitLines(b) ==
    IF b = <<>> THEN <<"">>
    ELSE IF Head(b) = NL THEN <<"">> \o SplitLines(Tail(b))
    ELSE IF Len(b) = 1 THEN <<Head(b)>>
    ELSE IF b[2] = NL THEN <<Head(b)>> \o SplitLines(Tail(Tail(b)))
    ELSE <<Head(b)>> \o SplitLines(Tail(b))

RECURSIVE DropBlank(_)
DropBlank(ls) == IF ls # <<>> /\ Head(ls) = "" THEN DropBlank(Tail(ls)) ELSE ls

AllBlank(ls) == \A i \in 1..Len(ls) : ls[i] = ""

\* codeop.CommandCompiler on the decoded buffer, symbol "single" (line 36):
\* a code object, nothing (more input needed), or SyntaxError
Parse(ls) ==
    LET r == DropBlank(ls) IN
    IF r = <<>> THEN [kind |-> "code", unit |-> "pass"]
    ELSE IF Head(r) \in SimpleLines
        THEN IF AllBlank(Tail(r)) THEN [kind |-> "code", unit |-> Head(r)]
             ELSE [kind |-> "syntax", unit |-> None]
    ELSE IF Head(r) = LDef
        THEN IF \E i \in 2..Len(r) : r[i] \notin {"", LBody}
                 THEN [kind |-> "syntax", unit |-> None]
             ELSE IF \A i \in 2..Len(r) : r[i] # LBody
                 THEN [kind |-> "pending", unit |-> None]
             ELSE IF r[Len(r)] = ""
                 THEN [kind |-> "code", unit |-> LDef]
             ELSE [kind |-> "pending", unit |-> None]
    ELSE [kind |-> "syntax", unit |-> None]

\* the number of lines the buffer holds
BufLines(b) == IF b = <<>> THEN 0 ELSE Len(SplitLines(b))

\* StatefulCommandCompiler.__call__ (lines 28-40): the outcome of one feed, the
\* number of lines it compiled (n) and the buffer it leaves.  Only a code object resets the buffer here; the
\* caller resets it on SyntaxError (send_exception), and nobody does on a
\* decoding error.
Feed(b, source) ==
    LET nb == BufWrite(b, source) IN
    IF ~Decodable(nb) THEN [kind |-> "decode_error", unit |-> None, buf |-> nb, n |-> BufLines(nb)]
    ELSE LET p == Parse(SplitLines(nb)) IN
         [kind |-> p.kind, unit |-> p.unit, n |-> BufLines(nb),
          buf |-> IF p.kind = "code" THEN reset(nb) ELSE nb]

\* line.rstrip(b'\n') of line 144: the line's bytes without the terminator
LineSource(line) == IF line = "" THEN <<>> ELSE <<line>>


(***************************************************************************)
(* The evaluator: eval(codeobj, namespace), lines 98 and 225.              *)
(***************************************************************************)
NoErr == "none"
Exceptions == {"NameError", "TimeoutError", "SyntaxError"}   \* subclasses of Exception
BaseExceptions == {"SystemExit"}                            \* BaseException only

\* what running one unit against a namespace does: the value of an expression,
\* the text it prints, the error it raises, the namespace it leaves
EvalCore(unit, ns) ==
    LET ok == [val |-> NoneV, printed |-> <<>>, err |-> NoErr, ns |-> ns] IN
    CASE unit = LExpr -> [ok EXCEPT !.val = IntV(1 + 1)]
      [] unit = LGetX -> IF ns["x"] = Unbound THEN [ok EXCEPT !.err = "NameError"]
                         ELSE [ok EXCEPT !.val = ns["x"]]
      [] unit = LSetX -> [ok EXCEPT !.ns = [ns EXCEPT !["x"] = IntV(5)]]
      [] unit = LDelX -> IF ns["x"] = Unbound THEN [ok EXCEPT !.err = "NameError"]
                         ELSE [ok EXCEPT !.ns = [ns EXCEPT !["x"] = Unbound]]
      [] unit = LPrint -> [ok EXCEPT !.printed = <<"hi", NL>>]
      [] unit = LExit -> [ok EXCEPT !.err = "SystemExit"]
      [] unit = LDef -> [ok EXCEPT !.ns = [ns EXCEPT !["f"] = FuncV]]
      [] OTHER -> ok

IntText == <<"0", "1", "2", "3", "4", "5", "6", "7", "8", "9">>

\* repr(value), as '{!r}' of line 163 formats it
Repr(v) == CASE v.t = "int" -> <<IntText[v.n + 1]>>
             [] v.t = "function" -> <<"<function f>">>
             [] OTHER -> <<"None">>

\* The host evaluator hands an expression's value back in one of two ways:
\* as eval's return value, or (code compiled in "single" mode, which is what
\* codeop produces) through sys.displayhook, which writes its repr and a
\* terminator to sys.stdout and leaves eval returning None.
Deliver(r, viaHook) ==
    IF viaHook /\ r.err = NoErr /\ r.val # NoneV
        THEN [r EXCEPT !.val = NoneV, !.printed = Repr(r.val) \o <<NL>>]
        ELSE r

Eval(unit, ns, viaHook) == Deliver(EvalCore(unit, ns), viaHook)

(***************************************************************************)
(* sys.stdout and contextlib.redirect_stdout (line 90).                    *)
(***************************************************************************)
Orig == [k |-> "orig", s |-> 0]        \* the process's own output
BufOf(s) == [k |-> "buf", s |-> s]     \* the StringIO of session s's open window
Stale == [k |-> "stale", s |-> 0]      \* the StringIO of a window that has closed

\* a channel whose text always lands in the first session's buffer
Emit_Misdirected(c, target, text, by) ==
    IF target.k = "buf"
        THEN [c EXCEPT ![1] = @ \o [i \in 1..Len(text) |-> [c |-> text[i], by |-> by]]]
        ELSE c

\* a channel that captures per execution: text lands in the writer's own buffer
Emit_PerExecution(c, target, text, by) ==
    [c EXCEPT ![by] = @ \o [i \in 1..Len(text) |-> [c |-> text[i], by |-> by]]]

\* text written to sys.stdout lands in whatever it points to at that moment
Emit(c, target, text, by) ==
    IF target.k = "buf"
        THEN [c EXCEPT ![target.s] = @ \o [i \in 1..Len(text) |-> [c |-> text[i], by |-> by]]]
        ELSE c

CapText(c) == [i \in 1..Len(c) |-> c[i].c]

\* a closed window's StringIO is no longer any window's buffer
Retire(target, s) == IF target = BufOf(s) THEN Stale ELSE target

(***************************************************************************)
(* Results and responses.                                                  *)
(***************************************************************************)
\* what one evaluation hands back (val, stdout, err), with what it observed of
\* the name x (saw) and what had last been bound to x by any session (expG)
\* and by the session itself (expS)
NoRes == [val |-> NoneV, stdout |-> <<>>, err |-> NoErr,
          saw |-> Unbound, expG |-> Unbound, expS |-> Unbound]

\* traceback.format_exc(), line 82
Traceback(err) == <<"Traceback (most recent call last):", err, NL>>

\* send_output with the line terminator after the value left out
send_output_NoTerminator(value, text) ==
    (IF value # NoneV THEN Repr(value) ELSE <<>>)
    \o (IF text # <<>> THEN text ELSE <<>>)

\* send_output (lines 151-168): the bytes it writes
send_output(value, text) ==
    (IF value # NoneV THEN Repr(value) \o <<NL>> ELSE <<>>)
    \o (IF text # <<>> THEN text ELSE <<>>)

\* send_exception without its self.compiler.reset()
send_exception_buf_NoReset(b) == b

\* send_exception (lines 78-85): the compiler buffer it leaves, the bytes it writes
send_exception_buf(b) == reset(b)
send_exception(err) == Traceback(err)

\* run_command with a timeout error that its handler does not catch
Handled_NoTimeout(err) == err \in Exceptions \ {"TimeoutError"}

\* run_command's try/except/else (lines 112-118): which errors it handles
Handled(err) == err \in Exceptions

(***************************************************************************)
(* The default executor's work items (loop.run_in_executor, line 225).     *)
(***************************************************************************)
RemoveAt(q, i) == [j \in 1..(Len(q) - 1) |-> IF j < i THEN q[j] ELSE q[j + 1]]

Running(q) == {i \in 1..Len(q) : q[i].st = "running"}
Queued(q) == {i \in 1..Len(q) : q[i].st = "queued"}
Waited(q, s) == {i \in 1..Len(q) : q[i].owner = s /\ q[i].waited}

Min(S) == CHOOSE x \in S : \A y \in S : x <= y

(***************************************************************************)
(* The state after start_manhole: no connection yet.  The configuration   *)
(* and the environment are one of four scenarios: one client typing        *)
(* anything at the inline interpreter; one client at the threaded          *)
(* interpreter; two clients at the inline one; two at the threaded one.    *)
(***************************************************************************)
ParserMenu == AllLines \cup {""}
OneThreadedMenu == {LExpr, LGetX, LSetX, LDelX, LPrint, LExit, LBadSyntax, LDef, LBody, ""}
InlineMenu == {LExpr, LGetX, LSetX, LDelX, LPrint, LExit, LDef}
ThreadedMenu == {LGetX, LSetX, LPrint}

\* the banner argument: None, text, bytes, or something else (an int)
NoBanner == [t |-> "none", v |-> <<>>]
StrBanner(v) == [t |-> "str", v |-> v]
BytesBanner(v) == [t |-> "bytes", v |-> v]
IntBanner == [t |-> "int", v |-> <<>>]

\* str.encode('utf8'): ASCII text is its own encoding, other text is not
EAcute == "<e-acute>"
Utf8(tok) == IF tok = EAcute THEN "\\xc3\\xa9" ELSE tok
Encode(text) == [i \in 1..Len(text) |-> Utf8(text[i])]

\* get_banner (lines 61-73): bytes as they are, text encoded, None as no
\* bytes, anything else a ValueError
get_banner(b) ==
    CASE b.t = "bytes" -> [ok |-> TRUE, bytes |-> b.v]
      [] b.t = "str" -> [ok |-> TRUE, bytes |-> Encode(b.v)]
      [] b.t = "none" -> [ok |-> TRUE, bytes |-> <<>>]
      [] OTHER -> [ok |-> FALSE, bytes |-> <<>>]

\* a compiler nobody has fed
NoFeed == [buf |-> <<>>, raw |-> <<>>, kind |-> "none", unit |-> None, pending |-> TRUE]

\* the server of the __main__ block (lines 327-333): one UNIX listener
MainPath == "/var/tmp/testing.manhole"
Started ==
    /\ port = None /\ path = MainPath
    /\ started = "ok" /\ listeners = {"unix"}
    /\ banner_arg \in {NoBanner, BytesBanner(BannerText)}
    /\ banner = get_banner(banner_arg).bytes

Unfed == lines = <<>> /\ fed = 0 /\ many = NoFeed /\ one = NoFeed

Scenario ==
    \/ /\ clients = {1} /\ threaded = FALSE /\ menu = ParserMenu
       /\ shared \in BOOLEAN
       /\ command_timeout = 5 /\ workers = 1
    \/ /\ clients = {1} /\ threaded = TRUE /\ menu = OneThreadedMenu
       /\ shared = FALSE /\ banner_arg = NoBanner
       /\ command_timeout \in {0, 5} /\ workers \in 1..MaxWorkers
    \/ /\ clients = Sessions /\ threaded = FALSE /\ menu = InlineMenu
       /\ shared \in BOOLEAN
       /\ command_timeout = 5 /\ workers = 1
    \/ /\ clients = Sessions /\ threaded = TRUE /\ menu = ThreadedMenu
       /\ shared \in BOOLEAN /\ banner_arg = NoBanner
       /\ command_timeout \in {0, 5} /\ workers = 1

\* no connection yet: every session idle, the output channel the process's own
Idle ==
    /\ alive = TRUE
    /\ sched = {}
    /\ pc = [s \in Sessions |-> "idle"]
    /\ buf = [s \in Sessions |-> <<>>]
    /\ out = [s \in Sessions |-> <<>>]
    /\ nsref = [s \in Sessions |-> 0]
    /\ heap = [r \in 0..NSessions |-> Template]
    /\ codeobj = [s \in Sessions |-> None]
    /\ res = [s \in Sessions |-> NoRes]
    /\ stdout = Orig
    /\ saved = [s \in Sessions |-> Orig]
    /\ cap = [s \in Sessions |-> <<>>]
    /\ pool = <<>>
    /\ hist = [gx |-> Template["x"],
               sx |-> [s \in Sessions |-> Template["x"]],
               feed |-> [s \in Sessions |-> "none"],
               n |-> [s \in Sessions |-> 0]]

Init == Started /\ Scenario /\ Unfed /\ Idle

\* a coroutine runs when the loop's thread is free or already its own
Runnable(s) == alive /\ sched \subseteq {s}

(***************************************************************************)
(* InterpreterFactory.__call__ (lines 250-261): one interpreter per        *)
(* connection, on the factory's namespace when shared, else on a copy.     *)
(***************************************************************************)
\* the factory copying the namespace for every connection
NamespaceFor_AlwaysCopy(s) == s

\* the factory handing its own namespace to every connection
NamespaceFor_NeverCopy(s) == 0

NamespaceFor(s) == IF shared THEN 0 ELSE s

Connect(s) ==
    /\ alive /\ sched = {}
    /\ s \in clients
    /\ pc[s] = "idle"
    /\ nsref' = [nsref EXCEPT ![s] = NamespaceFor(s)]
    /\ heap' = IF NamespaceFor(s) = 0 THEN heap ELSE [heap EXCEPT ![NamespaceFor(s)] = heap[0]]
    /\ hist' = [hist EXCEPT !.sx[s] = heap[0]["x"]]
    /\ pc' = [pc EXCEPT ![s] = "start"]
    /\ UNCHANGED <<cfgvars, alive, sched, buf, out, codeobj, res, stdout, saved, cap, pool>>

(***************************************************************************)
(* InteractiveInterpreter.__call__ up to its loop (lines 187-194).         *)
(***************************************************************************)
Start(s) ==
    /\ Runnable(s)
    /\ pc[s] = "start"
    /\ out' = [out EXCEPT ![s] = IF banner # <<>> THEN banner ELSE <<>>]
    /\ sched' = IF banner # <<>> THEN {} ELSE {s}
    /\ pc' = [pc EXCEPT ![s] = "prompt"]
    /\ UNCHANGED <<cfgvars, alive, buf, nsref, heap, codeobj, res, stdout, saved, cap, pool, hist>>

(***************************************************************************)
(* write_prompt (lines 120-128), the first call of each round of           *)
(* handle_one_command's loop.                                              *)
(***************************************************************************)
PromptFor(b) == IF is_partial_command(b) THEN PS2 ELSE PS1

\* a session loop that writes the banner at the head of every round
write_prompt_WithBanner(s) ==
    /\ Runnable(s)
    /\ pc[s] = "prompt"
    /\ out' = [out EXCEPT ![s] = banner \o PromptFor(buf[s])]
    /\ codeobj' = [codeobj EXCEPT ![s] = None]
    /\ res' = [res EXCEPT ![s] = NoRes]
    /\ sched' = {}
    /\ pc' = [pc EXCEPT ![s] = "read"]
    /\ UNCHANGED <<cfgvars, alive, buf, nsref, heap, stdout, saved, cap, pool, hist>>

write_prompt(s) ==
    /\ Runnable(s)
    /\ pc[s] = "prompt"
    /\ out' = [out EXCEPT ![s] = PromptFor(buf[s])]
    /\ codeobj' = [codeobj EXCEPT ![s] = None]
    /\ res' = [res EXCEPT ![s] = NoRes]
    /\ sched' = {}
    /\ pc' = [pc EXCEPT ![s] = "read"]
    /\ UNCHANGED <<cfgvars, alive, buf, nsref, heap, stdout, saved, cap, pool, hist>>

(***************************************************************************)
(* The tail of run_command once attempt_exec has handed back r: the window *)
(* closes (redirect_stdout.__exit__, lines 90-93), then send_output or     *)
(* send_exception writes and drains; an error that is no Exception passes  *)
(* every handler of the session (lines 114, 199, 202), leaves the task and *)
(* stops the loop.                                                         *)
(***************************************************************************)
Captured(c, s, r) == IF r.err = NoErr THEN CapText(c[s]) ELSE <<>>

Finish(s, r, c) ==
    LET full == [r EXCEPT !.stdout = Captured(c, s, r)] IN
    /\ stdout' = Retire(saved[s], s)
    /\ saved' = [t \in Sessions |-> IF t = s THEN Orig ELSE Retire(saved[t], s)]
    /\ cap' = [c EXCEPT ![s] = <<>>]
    /\ res' = [res EXCEPT ![s] = full]
    /\ IF r.err = NoErr
         THEN /\ out' = [out EXCEPT ![s] = send_output(full.val, full.stdout)]
              /\ buf' = buf
              /\ pc' = [pc EXCEPT ![s] = "prompt"]
              /\ alive' = alive
         ELSE IF Handled(r.err)
         THEN /\ out' = [out EXCEPT ![s] = send_exception(r.err)]
              /\ buf' = [buf EXCEPT ![s] = send_exception_buf(@)]
              /\ pc' = [pc EXCEPT ![s] = "prompt"]
              /\ alive' = alive
         ELSE /\ out' = out
              /\ buf' = buf
              /\ pc' = [pc EXCEPT ![s] = "dead"]
              /\ alive' = FALSE
    /\ sched' = {}

(***************************************************************************)
(* read_command (lines 130-149) with what follows it before the coroutine  *)
(* next suspends: the handlers of __call__ (196-203) for what it raises,   *)
(* send_exception for a SyntaxError, and for a code object run_command up  *)
(* to _real_exec, inside attempt_exec's window (line 90).                  *)
(***************************************************************************)
\* the handler of ConnectionResetError in __call__ (lines 199-201):
\* writer.close() and break
\* a reset handled like any other exception: logged, the loop retried
ConnectionReset_Retried(p, s) == [p EXCEPT ![s] = "prompt"]

ConnectionReset(p, s) == [p EXCEPT ![s] = "closed"]

Submit(q, s, unit) ==
    Append(q, [owner |-> s, unit |-> unit, st |-> "queued", waited |-> TRUE, r |-> NoRes])

read_command(s, line) ==
    /\ alive /\ sched = {}
    /\ pc[s] = "read"
    /\ IF line = EOF
         THEN \* ConnectionResetError: writer.close(), break
              /\ pc' = ConnectionReset(pc, s)
              /\ sched' = {}
              /\ hist' = [hist EXCEPT !.feed[s] = "eof"]
              /\ UNCHANGED <<buf, out, codeobj, res, stdout, saved, cap, pool>>
         ELSE LET f == Feed(buf[s], LineSource(line)) IN
              /\ line \in menu
              /\ BufLines(buf[s]) < MaxBufLines
              /\ \A t \in Sessions : Len(cap[t]) < MaxCapture
              /\ hist' = [hist EXCEPT !.feed[s] = f.kind, !.n[s] = f.n]
              /\ codeobj' = [codeobj EXCEPT ![s] = f.unit]
              /\ CASE f.kind = "code" ->
                        /\ buf' = [buf EXCEPT ![s] = f.buf]
                        /\ out' = [out EXCEPT ![s] = <<>>]
                        /\ saved' = [saved EXCEPT ![s] = stdout]
                        /\ stdout' = BufOf(s)
                        /\ cap' = [cap EXCEPT ![s] = <<>>]
                        /\ pc' = [pc EXCEPT ![s] = "real_exec"]
                        /\ sched' = {s}
                        /\ UNCHANGED <<res, pool>>
                   [] f.kind = "syntax" ->
                        /\ buf' = [buf EXCEPT ![s] = send_exception_buf(f.buf)]
                        /\ out' = [out EXCEPT ![s] = send_exception("SyntaxError")]
                        /\ res' = [res EXCEPT ![s] = [NoRes EXCEPT !.err = "SyntaxError"]]
                        /\ pc' = [pc EXCEPT ![s] = "prompt"]
                        /\ sched' = {}
                        /\ UNCHANGED <<stdout, saved, cap, pool>>
                   [] OTHER ->
                        \* nothing to run yet, or an error that __call__ logs:
                        \* the loop goes round to write_prompt
                        /\ buf' = [buf EXCEPT ![s] = f.buf]
                        /\ out' = [out EXCEPT ![s] = <<>>]
                        /\ pc' = [pc EXCEPT ![s] = "prompt"]
                        /\ sched' = {s}
                        /\ UNCHANGED <<res, stdout, saved, cap, pool>>
    /\ UNCHANGED <<cfgvars, alive, nsref, heap>>

\* the bookkeeping of one evaluation: what it saw and what had been bound
Observed(r, ns, s) ==
    [val |-> r.val, stdout |-> <<>>, err |-> r.err,
     saw |-> ns["x"], expG |-> hist.gx, expS |-> hist.sx[s]]

HistAfter(unit, r, s) ==
    IF unit \in {LSetX, LDelX} /\ r.err = NoErr
        THEN [hist EXCEPT !.gx = r.ns["x"], !.sx[s] = r.ns["x"]]
        ELSE hist

\* an inline _real_exec that hands the loop back before it evaluates
InlineRealExec_Yields(s) ==
    /\ alive
    /\ ~threaded
    /\ pc[s] = "real_exec"
    /\ sched = {s}
    /\ sched' = {}
    /\ UNCHANGED <<cfgvars, alive, pc, buf, out, nsref, heap, codeobj, res, stdout, saved,
                   cap, pool, hist>>

(***************************************************************************)
(* InteractiveInterpreter._real_exec (lines 95-98): eval on the loop's     *)
(* thread, and the rest of run_command.                                    *)
(***************************************************************************)
InlineRealExec(s) ==
    /\ Runnable(s)
    /\ ~threaded
    /\ pc[s] = "real_exec"
    /\ \E viaHook \in BOOLEAN :
         LET r == Eval(codeobj[s], heap[nsref[s]], viaHook) IN
         /\ heap' = [heap EXCEPT ![nsref[s]] = r.ns]
         /\ hist' = HistAfter(codeobj[s], r, s)
         /\ Finish(s, Observed(r, heap[nsref[s]], s), Emit(cap, stdout, r.printed, s))
    /\ UNCHANGED <<cfgvars, nsref, codeobj, pool>>

\* a threaded _real_exec that submits the work and does not wait for it
ThreadedRealExec_NoAwait(s) ==
    /\ Runnable(s)
    /\ threaded
    /\ pc[s] = "real_exec"
    /\ pool' = Append(pool, [owner |-> s, unit |-> codeobj[s], st |-> "queued",
                             waited |-> TRUE, r |-> NoRes])
    /\ pc' = [pc EXCEPT ![s] = "prompt"]
    /\ sched' = {}
    /\ UNCHANGED <<cfgvars, alive, buf, out, nsref, heap, codeobj, res, stdout, saved, cap, hist>>

(***************************************************************************)
(* ThreadedInteractiveInterpreter._real_exec (lines 222-228): submit the   *)
(* eval to the executor and wait for it, at most command_timeout.          *)
(***************************************************************************)
ThreadedRealExec(s) ==
    /\ Runnable(s)
    /\ threaded
    /\ pc[s] = "real_exec"
    /\ pool' = Submit(pool, s, codeobj[s])
    /\ pc' = [pc EXCEPT ![s] = "await"]
    /\ sched' = {}
    /\ UNCHANGED <<cfgvars, alive, buf, out, nsref, heap, codeobj, res, stdout, saved, cap, hist>>

\* an idle executor thread takes the oldest queued work item
WorkerStart ==
    /\ alive
    /\ Queued(pool) # {}
    /\ Cardinality(Running(pool)) < workers
    /\ pool' = [pool EXCEPT ![Min(Queued(pool))].st = "running"]
    /\ UNCHANGED <<cfgvars, alive, sched, pc, buf, out, nsref, heap, codeobj, res,
                   stdout, saved, cap, hist>>

\* what becomes of a work item that has run: its result is kept for the
\* waiter if there is one, and dropped with the item if there is none
Complete(q, i, r) ==
    IF q[i].waited THEN [q EXCEPT ![i].st = "done", ![i].r = r] ELSE RemoveAt(q, i)

\* the executor thread runs eval(codeobj, namespace)
WorkerRun(i) ==
    /\ alive
    /\ i \in Running(pool)
    /\ \E viaHook \in BOOLEAN :
         LET t == pool[i]
             r == Eval(t.unit, heap[nsref[t.owner]], viaHook) IN
         /\ heap' = [heap EXCEPT ![nsref[t.owner]] = r.ns]
         /\ cap' = Emit(cap, stdout, r.printed, t.owner)
         /\ hist' = HistAfter(t.unit, r, t.owner)
         /\ pool' = Complete(pool, i, Observed(r, heap[nsref[t.owner]], t.owner))
    /\ UNCHANGED <<cfgvars, alive, sched, pc, buf, out, nsref, codeobj, res, stdout, saved>>

\* `await task` returns with the future's result, and run_command goes on
Resume(s) ==
    /\ alive /\ sched = {}
    /\ pc[s] = "await"
    /\ \E i \in Waited(pool, s) :
         /\ pool[i].st = "done"
         /\ pool' = RemoveAt(pool, i)
         /\ Finish(s, pool[i].r, cap)
    /\ UNCHANGED <<cfgvars, nsref, heap, codeobj, hist>>

\* asyncio.wait_for gives up (line 227): it cancels the future it waited for,
\* which cancels a work item no thread has taken and leaves a running one
\* alone, and raises TimeoutError into run_command
\* a cancellation that removes the work item whatever its state
Cancel_Kill(q, i) == RemoveAt(q, i)

Cancel(q, i) == IF q[i].st = "queued" THEN RemoveAt(q, i) ELSE [q EXCEPT ![i].waited = FALSE]

TimeoutResult == [NoRes EXCEPT !.err = "TimeoutError"]

\* a wait that gives up whatever command_timeout is
Timeout_Unconditional(s) ==
    /\ alive /\ sched = {}
    /\ pc[s] = "await"
    /\ \E i \in Waited(pool, s) :
         /\ pool[i].st # "done"
         /\ pool' = Cancel(pool, i)
    /\ Finish(s, TimeoutResult, cap)
    /\ UNCHANGED <<cfgvars, nsref, heap, codeobj, hist>>

Timeout(s) ==
    /\ alive /\ sched = {}
    /\ pc[s] = "await"
    /\ command_timeout # 0
    /\ \E i \in Waited(pool, s) :
         /\ pool[i].st # "done"
         /\ pool' = Cancel(pool, i)
    /\ Finish(s, TimeoutResult, cap)
    /\ UNCHANGED <<cfgvars, nsref, heap, codeobj, hist>>

Next ==
    \/ \E s \in Sessions : Connect(s)
    \/ \E s \in Sessions : Start(s)
    \/ \E s \in Sessions : write_prompt(s)
    \/ \E s \in Sessions : \E line \in AllLines \cup {"", EOF} : read_command(s, line)
    \/ \E s \in Sessions : InlineRealExec(s)
    \/ \E s \in Sessions : ThreadedRealExec(s)
    \/ WorkerStart
    \/ \E i \in 1..Len(pool) : WorkerRun(i)
    \/ \E s \in Sessions : Resume(s)
    \/ \E s \in Sessions : Timeout(s)

Spec == Init /\ [][Next]_vars

(***************************************************************************)
(* StatefulCommandCompiler on its own (lines 18-44): one instance is fed a *)
(* sequence of lines one per call, another the same lines joined by the    *)
(* line separator in a single call.  Nobody resets either but the compiler *)
(* itself.                                                                 *)
(***************************************************************************)
InputLines == UNION {[1..n -> ParserMenu] : n \in 1..MaxBufLines}

\* b'\n'.join(lines)
RECURSIVE Join(_)
Join(ls) ==
    IF Len(ls) = 1 THEN LineSource(Head(ls))
    ELSE LineSource(Head(ls)) \o <<NL>> \o Join(Tail(ls))

\* one call of the compiler a with source: the bytes it compiled (raw), the
\* outcome, the buffer it leaves, and whether every earlier call returned
\* nothing
Accumulate(a, source) ==
    LET f == Feed(a.buf, source) IN
    [buf |-> f.buf, raw |-> BufWrite(a.buf, source), kind |-> f.kind, unit |-> f.unit,
     pending |-> a.pending /\ a.kind \in {"none", "pending"}]

FeedInit ==
    /\ Started /\ banner_arg = NoBanner
    /\ clients = {} /\ menu = ParserMenu
    /\ threaded = FALSE /\ shared = FALSE /\ command_timeout = 5 /\ workers = 1
    /\ Idle
    /\ lines \in InputLines
    /\ fed = 0 /\ many = NoFeed /\ one = NoFeed

FeedLine ==
    /\ fed < Len(lines)
    /\ many' = Accumulate(many, LineSource(lines[fed + 1]))
    /\ fed' = fed + 1
    /\ UNCHANGED <<threaded, command_timeout, shared, banner, workers, clients, menu,
                   startvars, sessvars, lines, one>>

FeedWhole ==
    /\ one.kind = "none"
    /\ one' = Accumulate(one, Join(lines))
    /\ UNCHANGED <<threaded, command_timeout, shared, banner, workers, clients, menu,
                   startvars, sessvars, lines, fed, many>>

FeedNext == FeedLine \/ FeedWhole

FeedSpec == FeedInit /\ [][FeedNext]_vars

(***************************************************************************)
(* start_manhole (lines 264-324) from before it is called, and the first   *)
(* steps of a connection: the factory constructing the interpreter (which  *)
(* is where get_banner runs, line 57) and the banner being written.        *)
(***************************************************************************)
Ports == {None, "0", "8000"}
Paths == {None, "", MainPath}
BannerArgs == {NoBanner, StrBanner(<<EAcute, NL>>), BytesBanner(BannerText), IntBanner}

\* bool(path) of line 312
Truthy(p) == p \notin {None, ""}

StartInit ==
    /\ port \in Ports /\ path \in Paths
    /\ banner_arg \in BannerArgs
    /\ banner = get_banner(banner_arg).bytes
    /\ started = "no" /\ listeners = {}
    /\ threaded \in BOOLEAN /\ shared \in BOOLEAN /\ command_timeout = 5 /\ workers = 1
    /\ clients = {1} /\ menu = {}
    /\ Unfed
    /\ Idle

\* lines 296-324: ValueError when neither address is given, else one server
\* for a truthy path and one for a port that is not None
start_manhole ==
    /\ started = "no"
    /\ IF port = None /\ path = None
         THEN started' = "ValueError" /\ listeners' = {}
         ELSE /\ started' = "ok"
              /\ listeners' = (IF Truthy(path) THEN {"unix"} ELSE {})
                                   \cup (IF port # None THEN {"tcp"} ELSE {})
    /\ UNCHANGED <<threaded, command_timeout, shared, banner, workers, clients, menu,
                   port, path, banner_arg, feedvars, sessvars>>

\* a client connects to a listener: InterpreterFactory.__call__ constructs the
\* interpreter, whose __init__ calls get_banner; its ValueError leaves the
\* connection without a session
Accept(s) ==
    /\ started = "ok"
    /\ listeners # {}
    /\ IF get_banner(banner_arg).ok
         THEN Connect(s)
         ELSE /\ alive /\ sched = {}
              /\ s \in clients
              /\ pc[s] = "idle"
              /\ pc' = [pc EXCEPT ![s] = "failed"]
              /\ UNCHANGED <<cfgvars, alive, sched, buf, out, nsref, heap, codeobj, res,
                             stdout, saved, cap, pool, hist>>

StartNext ==
    \/ start_manhole
    \/ \E s \in Sessions : Accept(s)
    \/ \E s \in Sessions : Start(s)

StartSpec == StartInit /\ [][StartNext]_vars

(***************************************************************************)
(* Properties.                                                             *)
(***************************************************************************)
Tasks(s) == {i \in 1..Len(pool) : pool[i].owner = s}
Abandoned(s) == {i \in Tasks(s) : ~pool[i].waited}
Unwaited == {i \in 1..Len(pool) : ~pool[i].waited}

\* the number of executions of session s that are in flight
InFlight(s) ==
    Cardinality(Tasks(s)) + (IF ~threaded /\ pc[s] = "real_exec" THEN 1 ELSE 0)

\* the step in which session s's offloaded wait times out
TimedOutStep(s) ==
    /\ pc[s] = "await"
    /\ pc'[s] # "await"
    /\ res'[s].err = "TimeoutError"

\* session s has just answered a command that ran
Answered(s) == pc[s] = "prompt" /\ codeobj[s] # None

\* C1 as stated: within one session at most one execution is in flight at any
\* instant, commands whose wait timed out included, and no prompt or read
\* happens while one is.
C1_OneInFlightAlways ==
    \A s \in Sessions :
        /\ InFlight(s) <= 1
        /\ pc[s] \in {"prompt", "read"} => InFlight(s) = 0

C1_Inv ==
    \A s \in Sessions :
        \* at most one execution the session waits for, and only while it waits
        /\ Cardinality(Waited(pool, s)) <= 1
        /\ Waited(pool, s) # {} <=> pc[s] = "await"
        /\ ~threaded => Tasks(s) = {}
        \* what else is in flight is work whose wait timed out: it had started,
        \* and it was submitted before the execution now waited for
        /\ \A i \in Abandoned(s) : pool[i].st = "running"
        /\ \A i \in Abandoned(s) : \A j \in Waited(pool, s) : i < j
        \* the response to a command that ran is written before the prompt is
        /\ Answered(s) =>
               out[s] = IF res[s].err = NoErr
                           THEN send_output(res[s].val, res[s].stdout)
                           ELSE send_exception(res[s].err)

C1_Step ==
    \A s \in Sessions :
        \* a read follows a prompt, a dispatch follows a read, and the session
        \* leaves an execution only for the prompt, the response written
        /\ pc'[s] = "read" /\ pc[s] # "read" => pc[s] = "prompt"
        /\ pc'[s] = "real_exec" /\ pc[s] # "real_exec" => pc[s] = "read"
        /\ pc[s] \in {"real_exec", "await"} /\ pc'[s] \notin {"real_exec", "await"}
               => pc'[s] = "dead" \/ (pc'[s] = "prompt" /\ codeobj'[s] # None)

\* C1 (amended): within one session the executions it waits for run one at a
\* time, in the order their lines were received, and the session writes no
\* prompt, reads no line and dispatches no unit before the previous command's
\* response (result, failure text or timeout notice) is written; only an
\* execution whose wait timed out, already running, may still be in flight
\* beside a later one.
C1_OneWaitedAtATime == []C1_Inv /\ [][C1_Step]_vars

\* C1 witness: a session waits for one execution while an earlier one of its
\* own, whose wait timed out, is still running.
C1_Witness ==
    \E s \in Sessions : pc[s] = "await" /\ Abandoned(s) # {} /\ Waited(pool, s) # {}

\* C2 as stated: whatever error a unit raises, the session writes failure text
\* and is back at the prompt, and the server goes on.
C2_EveryErrorHandled ==
    /\ alive
    /\ \A s \in Sessions :
           res[s].err # NoErr => pc[s] = "prompt" /\ out[s] = send_exception(res[s].err)

\* What the code keeps of C2: every error of the ordinary-exception hierarchy
\* that a unit raises is caught, written to the client as failure text, and
\* leaves the session at the prompt; a session is closed only by a connection
\* reset; the loop stops only for an error outside that hierarchy, which no
\* handler of the session catches.
ExceptionsHandled ==
    /\ \A s \in Sessions :
           /\ res[s].err \in Exceptions =>
                  pc[s] = "prompt" /\ out[s] = send_exception(res[s].err)
           /\ pc[s] = "closed" => hist.feed[s] = "eof"
           /\ pc[s] = "dead" => res[s].err \in BaseExceptions /\ ~alive
    /\ ~alive => \E s \in Sessions : pc[s] = "dead" /\ res[s].err \in BaseExceptions

\* C2 witness: a session dispatched exit(), the exit request left its task
\* uncaught, and the loop has stopped.
C2_Witness ==
    \E s \in Sessions :
        codeobj[s] = LExit /\ res[s].err = "SystemExit" /\ pc[s] = "dead" /\ ~alive

\* C3: under the inline strategy at most one session is inside an execution,
\* and while one is, no other session takes any step.
C3_InlineSerial ==
    /\ [](~threaded => Cardinality({s \in Sessions : pc[s] = "real_exec"}) <= 1)
    /\ [][~threaded =>
            \A s \in Sessions : pc[s] = "real_exec" =>
                \A t \in Sessions \ {s} :
                    /\ pc'[t] = pc[t] /\ out'[t] = out[t] /\ buf'[t] = buf[t]
                    /\ res'[t] = res[t] /\ codeobj'[t] = codeobj[t]]_vars

\* C3 witness: one session is inside an inline execution while another is
\* connected and waiting for a line.
C3_Witness ==
    /\ ~threaded
    /\ \E s, t \in Sessions : s # t /\ pc[s] = "real_exec" /\ pc[t] = "read"

\* an evaluation of the name x whose outcome the session holds
SawX(s) ==
    /\ pc[s] = "prompt"
    /\ codeobj[s] = LGetX
    /\ res[s].err \in {NoErr, "NameError"}

\* C4: in shared mode every session runs against the factory's one namespace,
\* and an evaluation of x by any session observes the binding that the latest
\* execution of any session left: 5 once some session ran x = 5.
C4_SharedNamespace ==
    shared =>
        /\ \A s \in Sessions : nsref[s] = 0
        /\ hist.gx = heap[0]["x"]
        /\ \A s \in Sessions : SawX(s) =>
               /\ res[s].saw = res[s].expG
               /\ res[s].err = NoErr <=> res[s].saw # Unbound

\* C4 witness: a session that never bound x itself evaluated x and saw 5.
C4_Witness ==
    /\ shared
    /\ \E s \in Sessions :
           /\ SawX(s) /\ res[s].expS = Unbound
           /\ res[s].saw = IntV(5) /\ res[s].err = NoErr

\* C5: in isolated mode each session runs against its own copy of the
\* template, an evaluation of x observes only what the session itself bound
\* (name-not-found when it bound nothing), and the template never changes.
C5_IsolatedNamespace ==
    ~shared =>
        /\ heap[0] = Template
        /\ \A s \in Sessions : pc[s] # "idle" => nsref[s] = s
        /\ \A s \in Sessions : pc[s] = "start" => heap[nsref[s]] = Template
        /\ \A s \in Sessions : hist.sx[s] = heap[s]["x"]
        /\ \A s \in Sessions : SawX(s) =>
               /\ res[s].saw = res[s].expS
               /\ res[s].err = "NameError" <=> res[s].expS = Unbound

\* C5 witness: after another session bound x to 5, a session evaluates x and
\* gets name-not-found.
C5_Witness ==
    /\ ~shared
    /\ \E s \in Sessions :
           SawX(s) /\ res[s].expG = IntV(5) /\ res[s].err = "NameError"

\* C6: after a feed that ended in a syntax error the session has written the
\* failure block, holds an empty buffer, has dispatched nothing, and writes
\* the primary prompt before it reads the next line.
C6_SyntaxErrorResets ==
    \A s \in Sessions : hist.feed[s] = "syntax" =>
        /\ pc[s] \in {"prompt", "read"}
        /\ buf[s] = <<>> /\ ~is_partial_command(buf[s])
        /\ Waited(pool, s) = {} /\ stdout # BufOf(s)
        /\ pc[s] = "prompt" => out[s] = Traceback("SyntaxError") /\ codeobj[s] = None
        /\ pc[s] = "read" => out[s] = PS1

\* C6 witness: the syntax error ended an accumulation of two or more lines
\* and the primary prompt has been written.
C6_Witness ==
    \E s \in Sessions :
        hist.feed[s] = "syntax" /\ hist.n[s] >= 2 /\ pc[s] = "read" /\ out[s] = PS1

\* C7: when the offloaded wait times out the session writes the timeout
\* notice and is at the prompt with an empty buffer, the loop running, the
\* session neither closed nor dead; work whose wait timed out never keeps the
\* session from its loop.
C7_TimeoutKeepsSession ==
    /\ [][\A s \in Sessions : TimedOutStep(s) =>
            /\ threaded /\ command_timeout # 0
            /\ alive' /\ pc'[s] = "prompt"
            /\ out'[s] = Traceback("TimeoutError")
            /\ buf'[s] = <<>>]_vars
    /\ [](\A s \in Sessions :
            Abandoned(s) # {} /\ alive => pc[s] \in {"prompt", "read", "real_exec", "await", "closed"})

\* C7 witness: a session whose earlier command timed out and is still running
\* has read, executed and answered a later command.
C7_Witness ==
    \E s \in Sessions :
        /\ Abandoned(s) # {} /\ command_timeout # 0
        /\ Answered(s) /\ res[s].err = NoErr /\ out[s] # <<>>

\* C8 as stated: when the wait times out the submitted execution is not
\* cancelled, whether it had started or was still queued.
C8_NeverCancelled ==
    [][\A s \in Sessions : TimedOutStep(s) => Len(pool') = Len(pool)]_vars

\* C8 (amended): when the wait times out, a submitted execution that has
\* started on a worker is left running, no longer waited for; one that is
\* still queued is cancelled with the wait and never runs.  Work nobody waits
\* for is never queued, and when it ends no session's output, result or
\* position changes.
C8_TimeoutCancelsWaitOrQueued ==
    /\ [][\A s \in Sessions : TimedOutStep(s) =>
            \E i \in Waited(pool, s) :
                /\ pool[i].st = "running" => pool' = [pool EXCEPT ![i].waited = FALSE]
                /\ pool[i].st = "queued" => pool' = RemoveAt(pool, i)
                /\ pool[i].st # "done"]_vars
    /\ [](\A i \in Unwaited : pool[i].st = "running")
    /\ [][Len(pool') < Len(pool) /\ (\A s \in Sessions : pc'[s] = pc[s])
            => out' = out /\ res' = res /\ alive' = alive]_vars

\* C8 witness: a wait has timed out and the execution it waited for is still
\* running on its worker.
C8_Witness ==
    \E s \in Sessions :
        /\ pc[s] = "prompt" /\ res[s].err = "TimeoutError"
        /\ \E i \in Abandoned(s) : pool[i].unit = codeobj[s]

C10_ContinuationIffPending ==
    \A s \in Sessions : pc[s] = "read" =>
        /\ out[s] \in {PS1, PS2}
        /\ out[s] = PS2 <=> hist.feed[s] = "pending"

\* C10 witness: a line that is not valid UTF-8 was fed at a primary prompt,
\* the feed raised instead of returning, and the continuation prompt follows.
C10_Witness ==
    \E s \in Sessions :
        /\ hist.feed[s] = "decode_error" /\ hist.n[s] = 1
        /\ pc[s] = "read" /\ out[s] = PS2 /\ is_partial_command(buf[s])

\* the step in which session s reads zero bytes
ResetStep(s) == pc[s] = "read" /\ hist'.feed[s] = "eof" /\ pc'[s] # "read"

\* C11: a zero-byte read closes the session it is read in, whatever its
\* buffer holds; from then on nothing is written, read, fed or dispatched for
\* that session, and the step changes nothing of any other session, of the
\* namespaces, of the output channel or of the executor, which go on.
C11_ResetClosesOneSession ==
    /\ [](\A s \in Sessions : hist.feed[s] = "eof" => pc[s] = "closed" /\ sched # {s})
    /\ [][\A s \in Sessions : ResetStep(s) =>
            /\ out'[s] = out[s] /\ buf'[s] = buf[s]
            /\ \A t \in Sessions \ {s} :
                   /\ pc'[t] = pc[t] /\ buf'[t] = buf[t] /\ out'[t] = out[t]
                   /\ res'[t] = res[t] /\ codeobj'[t] = codeobj[t] /\ nsref'[t] = nsref[t]
            /\ heap' = heap /\ stdout' = stdout /\ saved' = saved /\ cap' = cap
            /\ pool' = pool /\ alive' = alive /\ sched' = {}]_vars
    /\ [][\A s \in Sessions : pc[s] = "closed" =>
            /\ pc'[s] = "closed" /\ out'[s] = out[s] /\ buf'[s] = buf[s]
            /\ codeobj'[s] = codeobj[s] /\ hist'.feed[s] = hist.feed[s]
            /\ Len(pool') > Len(pool) => pool'[Len(pool')].owner # s]_vars

\* C11 witness: one session was closed with a partial command in its buffer
\* and another session is inside an execution.
C11_Witness ==
    \E s, t \in Sessions :
        /\ pc[s] = "closed" /\ is_partial_command(buf[s])
        /\ pc[t] = "real_exec" /\ alive

\* the bytes o hold bytes of the configured banner
HasBanner(o) == banner # <<>> /\ \E i \in 1..Len(o) : o[i] = banner[1]

\* C12: a configured banner is the first thing a session writes, as given,
\* before the first prompt and the first read, and no later step of the
\* session writes it again, a retry of the loop after a logged failure
\* included; without a banner the first bytes are the primary prompt.
C12_BannerOnce ==
    /\ [](\A s \in Sessions :
            /\ pc[s] \in {"idle", "start"} => out[s] = <<>>
            /\ pc[s] = "prompt" /\ hist.feed[s] = "none" =>
                   out[s] = get_banner(banner_arg).bytes
            /\ pc[s] = "read" /\ hist.feed[s] = "none" => out[s] = PS1
            /\ banner_arg.t = "bytes" => banner = banner_arg.v)
    /\ [][\A s \in Sessions :
            /\ pc'[s] = "start" => pc[s] \in {"idle", "start"}
            /\ pc[s] = "start" /\ pc'[s] # "start" => pc'[s] = "prompt" /\ out'[s] = banner
            /\ HasBanner(out'[s]) /\ out'[s] # out[s] => pc[s] = "start"]_vars

\* C12 witness: with a banner configured, the loop was retried after a logged
\* failure and the session is reading again behind a prompt alone.
C12_Witness ==
    \E s \in Sessions :
        /\ banner = BannerText
        /\ hist.feed[s] = "decode_error" /\ pc[s] = "read" /\ out[s] = PS2

\* both compilers have been fed all the lines
FedBoth == lines # <<>> /\ fed = Len(lines) /\ one.kind # "none"

\* C13 as stated: for every sequence of lines, feeding them one per call and
\* feeding their join in one call yield the same unit and both leave the
\* buffer empty.
C13_SplitInvariantForAll ==
    FedBoth => many.unit = one.unit /\ many.buf = <<>> /\ one.buf = <<>>

\* C13 (amended): for every sequence of lines of which every feed before the
\* last returned Pending, feeding the lines one per call and feeding their
\* join in one call compile the same bytes, have the same outcome (the same
\* unit, or Pending, or the same error) and leave the same buffer; a feed
\* leaves the buffer empty exactly when it produced a unit; and a feed puts a
\* line separator before the line exactly when the buffer is non-empty.
C13_SplitInvariantWhilePending ==
    /\ [](FedBoth /\ many.pending =>
            /\ many.raw = one.raw /\ one.raw = Join(lines)
            /\ many.kind = one.kind /\ many.unit = one.unit
            /\ many.buf = one.buf)
    /\ [](\A a \in {many, one} : a.kind # "none" =>
            /\ a.buf = <<>> <=> a.kind = "code"
            /\ a.kind # "code" => a.buf = a.raw
            /\ a.kind = "code" <=> a.unit # None)
    /\ [][fed' = fed + 1 =>
            many'.raw = IF many.buf # <<>>
                            THEN many.buf \o <<NL>> \o LineSource(lines[fed + 1])
                            ELSE LineSource(lines[fed + 1])]_vars

\* C13 witness: three lines, the first two returned Pending, the third
\* completed the definition, and the one call on their join has been made.
C13_Witness ==
    /\ FedBoth /\ many.pending
    /\ Len(lines) >= 3 /\ many.kind = "code" /\ many.unit = LDef /\ one.unit = LDef

\* the startup configuration is one the documentation calls invalid
InvalidConfig == (port = None /\ path = None) \/ ~get_banner(banner_arg).ok

\* C14 as stated: a start with an invalid configuration (no bind address, or
\* a banner that is neither text nor bytes) fails, opens no listener and no
\* session is ever created; a start that does not fail yields a handle for
\* each requested listener, and at least one.
C14_InvalidConfigFailsStart ==
    started # "no" =>
        /\ InvalidConfig =>
               /\ started = "ValueError" /\ listeners = {}
               /\ \A s \in Sessions : pc[s] = "idle"
        /\ started = "ok" =>
               /\ listeners # {}
               /\ "unix" \in listeners <=> path # None
               /\ "tcp" \in listeners <=> port # None

\* What the code keeps of C14: without any bind address the start raises and
\* opens nothing; every listener it opens was asked for; no session exists
\* before a successful start.
NoAddressFailsStart ==
    /\ started # "no" /\ port = None /\ path = None =>
           started = "ValueError" /\ listeners = {}
    /\ "unix" \in listeners => Truthy(path)
    /\ "tcp" \in listeners => port # None
    /\ started # "ok" => listeners = {} /\ \A s \in Sessions : pc[s] = "idle"

\* C14 witness: the start succeeded with a banner that is neither text nor
\* bytes, a listener is open, and a connection found no session behind it.
C14_Witness ==
    /\ started = "ok" /\ banner_arg = IntBanner /\ listeners # {}
    /\ \E s \in Sessions : pc[s] = "failed"

\* the buffer of session s is empty unless its last feed returned Pending
EmptyUnlessPending(s) ==
    /\ pc[s] \in {"real_exec", "await"} => buf[s] = <<>>
    /\ pc[s] \in {"prompt", "read"} /\ hist.feed[s] # "pending" => buf[s] = <<>>
    /\ pc[s] # "closed" /\ buf[s] # <<>> => hist.feed[s] = "pending"

\* C15 as stated: while a unit executes, while a response is written, and at
\* the prompt after a feed whose outcome was anything but Pending (a unit, a
\* syntax error, any other error of decoding or parsing), the buffer is
\* empty; it is non-empty only between a feed that returned Pending and the
\* next feed.
C15_BufferNeverRetained == \A s \in Sessions : EmptyUnlessPending(s)

\* What the code keeps of C15: the same, for every feed that did not fail in
\* decoding.
BufferRetainedOnlyUndecoded ==
    \A s \in Sessions : hist.feed[s] # "decode_error" => EmptyUnlessPending(s)

\* C15 witness: the second line of a definition was not valid UTF-8; the
\* feed raised and the session is back at the prompt with both lines still
\* in its buffer.
C15_Witness ==
    \E s \in Sessions :
        /\ hist.feed[s] = "decode_error" /\ hist.n[s] >= 2
        /\ pc[s] = "prompt" /\ BufLines(buf[s]) >= 2

\* the step in which session s reads a line and feeds it to its compiler
FeedStep(s) == pc[s] = "read" /\ pc'[s] # "read" /\ hist'.feed[s] # "eof"

\* C16 as stated: an exception that escapes the per-command loop is logged
\* and the loop restarts at the prompt without closing the session, and the
\* session stays usable: a well-formed command the client sends afterwards
\* is parsed and dispatched, not left unparsed in the buffer.
C16_UsableAfterLoggedFailure ==
    /\ [](\A s \in Sessions :
            hist.feed[s] = "decode_error" => pc[s] \in {"prompt", "read"} /\ alive)
    /\ [][\A s \in Sessions :
            FeedStep(s) /\ hist.feed[s] = "decode_error" =>
                IF buf'[s] = <<>>
                    THEN pc'[s] = "real_exec" /\ codeobj'[s] # None
                    ELSE buf'[s][Len(buf'[s])] \notin SimpleLines]_vars

\* What the code keeps of C16: the failure closes nothing and stops nothing,
\* and the loop is back at the prompt.
LoggedFailureRestartsLoop ==
    \A s \in Sessions :
        hist.feed[s] = "decode_error" =>
            /\ pc[s] \in {"prompt", "read"} /\ alive
            /\ codeobj[s] = None /\ res[s] = NoRes
            /\ ~Decodable(buf[s])

\* C16 witness: after the logged failure the client sent 1+1; the line sits
\* in the buffer behind the undecodable one and the session shows the
\* continuation prompt.
C16_Witness ==
    \E s \in Sessions :
        /\ hist.feed[s] = "decode_error"
        /\ buf[s] = <<LBadBytes, NL, LExpr>>
        /\ pc[s] = "read" /\ out[s] = PS2

\* session s is inside attempt_exec's redirect_stdout block
InWindow(s) == pc[s] \in {"real_exec", "await"}

\* C17 as stated: under either strategy, however the execution windows of
\* the sessions overlap and in whatever order they end, whenever no session
\* is inside a window the output channel is the process's original output.
C17_ChannelRestored ==
    (\A s \in Sessions : ~InWindow(s)) => stdout = Orig

\* What the code keeps of C17: the channel is restored whenever windows do
\* not overlap, which is always so under the inline strategy and with one
\* session; and whatever the order, inside a window that is the only one
\* open the channel is that window's buffer.
ChannelRestoredUnlessOverlap ==
    /\ ~threaded \/ Cardinality(clients) = 1 =>
           /\ (\A s \in Sessions : ~InWindow(s)) => stdout = Orig
           /\ \A s \in Sessions : InWindow(s) => stdout = BufOf(s) /\ saved[s] = Orig
    /\ \A s \in Sessions : ~InWindow(s) => saved[s] = Orig /\ cap[s] = <<>>
    /\ \A s \in Sessions : stdout = BufOf(s) => InWindow(s)

\* C17 witness: two windows overlapped and ended in the order they began; no
\* session is inside a window and the channel is the closed buffer of one.
C17_Witness ==
    /\ \A s \in Sessions : pc[s] \in {"prompt", "read"}
    /\ stdout = Stale

\* what the execution behind the result r of unit wrote to the output
\* channel and handed back: the evaluator applied to a namespace in which x
\* is what the execution saw
WroteExactly(unit, r) ==
    \E viaHook \in BOOLEAN :
        LET e == Eval(unit, [Template EXCEPT !["x"] = r.saw], viaHook) IN
        e.err = NoErr /\ e.val = r.val /\ e.printed = r.stdout

\* C18: under the inline strategy, with any number of sessions, the captured
\* output of every result is exactly what that execution wrote to the output
\* channel; between executions no capture buffer holds text, so none is
\* carried into another session's result, and the channel is the process's
\* own.
C18_InlineCaptureExact ==
    ~threaded =>
        /\ \A s \in Sessions :
               Answered(s) /\ res[s].err = NoErr => WroteExactly(codeobj[s], res[s])
        /\ \A s \in Sessions : cap[s] = <<>>
        /\ \A s \in Sessions : InWindow(s) => stdout = BufOf(s)
        /\ (\A s \in Sessions : ~InWindow(s)) => stdout = Orig

\* C18 witness: two sessions at the inline interpreter, one answered for a
\* print with its text, the other answered for an assignment with none.
C18_Witness ==
    /\ ~threaded
    /\ \E s, t \in Sessions :
           /\ s # t
           /\ Answered(s) /\ codeobj[s] = LPrint /\ res[s].stdout = <<"hi", NL>>
           /\ Answered(t) /\ codeobj[t] = LSetX /\ res[t].stdout = <<>>
           /\ res[s].err = NoErr /\ res[t].err = NoErr

\* C19: under the offloaded strategy capture is not isolated: text lands in
\* the buffer the process-wide channel points to when it is written, whoever
\* writes it, and is lost when the channel points to no open buffer; so a
\* buffer grows only while it is the channel's target, and a result may hold
\* text of another execution (the witness below is such a reachable state).
C19_CaptureFollowsChannel ==
    /\ [][\A s \in Sessions : Len(cap'[s]) > Len(cap[s]) =>
            /\ threaded
            /\ stdout = BufOf(s)
            /\ \E i \in Running(pool) :
                   \A k \in (Len(cap[s]) + 1)..Len(cap'[s]) : cap'[s][k].by = pool[i].owner]_vars
    /\ [](\A s \in Sessions : \A k \in 1..Len(cap[s]) :
            cap[s][k].by # s => threaded /\ Cardinality(clients) > 1)

\* C19 witness: a session's response to x = 5, which writes nothing, carries
\* the text another session's print wrote.
C19_Witness ==
    \E s \in Sessions :
        /\ threaded
        /\ Answered(s) /\ codeobj[s] = LSetX /\ res[s].err = NoErr
        /\ res[s].stdout = <<"hi", NL>> /\ out[s] = <<"hi", NL>>

\* the work item session s waits for has finished on its worker
WorkerDone(s) == \E i \in Waited(pool, s) : pool[i].st = "done"

\* C20: under the offloaded strategy a session waiting for its worker does
\* not hold the loop: whenever the loop is free, every other session can be
\* prompted, read or, its own worker done, answered.  With the timeout zero
\* no wait is ever given up: no session reports a timeout or leaves work
\* behind, and a session leaves the wait only when its worker has finished,
\* with that worker's value or error.
C20_WaitDoesNotBlock ==
    /\ [](\A s \in Sessions : pc[s] = "await" =>
            /\ threaded /\ sched # {s}
            /\ \A t \in Sessions \ {s} : alive /\ sched = {} =>
                   /\ pc[t] = "prompt" => ENABLED write_prompt(t)
                   /\ pc[t] = "read" => ENABLED read_command(t, EOF)
                   /\ pc[t] = "await" /\ WorkerDone(t) => ENABLED Resume(t))
    /\ [](command_timeout = 0 =>
            \A s \in Sessions : res[s].err # "TimeoutError" /\ Abandoned(s) = {})
    /\ [][\A s \in Sessions :
            command_timeout = 0 /\ pc[s] = "await" /\ pc'[s] # "await" =>
                \E i \in Waited(pool, s) :
                    /\ pool[i].st = "done"
                    /\ res'[s].val = pool[i].r.val /\ res'[s].err = pool[i].r.err
                    /\ pc'[s] = IF Handled(pool[i].r.err) \/ pool[i].r.err = NoErr
                                    THEN "prompt" ELSE "dead"]_vars

\* C20 witness: the timeout is zero, one session waits for its execution,
\* which is running, and the other's worker has finished, its answer due.
C20_Witness ==
    /\ threaded /\ command_timeout = 0
    /\ \E s, t \in Sessions :
           /\ s # t
           /\ pc[s] = "await" /\ (\E i \in Waited(pool, s) : pool[i].st = "running")
           /\ pc[t] = "await" /\ WorkerDone(t)
====
